---- MODULE Spec2Model ----
(***************************************************************************)
(* Materialized-data retrieval of intelliflow/api_ext.py:                  *)
(*   ApplicationExt.load_data          (a generator, lines 417-683)        *)
(*   AWSApplication._load_external_data (a generator, lines 1082-1170)     *)
(* Both are Python generators: their code runs only while a consumer pulls *)
(* from them, one segment between two yields at a time.  `ctl` says which  *)
(* frame is running: the caller, load_data, or the partition source that   *)
(* load_data pulls from (data_it).                                         *)
(***************************************************************************)
EXTENDS Integers, Sequences, FiniteSets, TLC

\* ---------------------------------------------------------------- bounds
MaxParts == 2      \* partitions held by the storage of the requested output
MaxLines == 2      \* lines of one partition's payload (0: empty payload)
MaxLimit == 3      \* largest 'limit' argument tried

\* ------------------------------------------------------------- vocabulary
Header == <<0, 0>>                       \* the header line shared by all partitions
Row(p, k) == <<p, k>>                    \* k-th data row of partition p
NoError == "none"
NoneFrame == [kind |-> "none", cols |-> <<>>, lines |-> <<>>]
SparkFrame == [kind |-> "spark", cols |-> <<>>, lines |-> <<>>]
NoItem == [has |-> FALSE, part |-> 0, lines |-> <<>>]

Min(a, b) == IF a <= b THEN a ELSE b
Max(a, b) == IF a >= b THEN a ELSE b

RECURSIVE ConcatLines(_)
ConcatLines(fs) == IF fs = <<>> THEN <<>> ELSE Head(fs).lines \o ConcatLines(Tail(fs))

Count(ev, e) == Cardinality({i \in 1..Len(ev) : ev[i] = e})
Has(ev, e) == \E i \in 1..Len(ev) : ev[i] = e

VARIABLES
  args,              \* the arguments of load_data and what they resolve to (fixed per call)
  ctl,               \* "caller" | "load_data" | "source": the frame that is running
  pc,                \* load_data's position
  limit,             \* load_data's local 'limit' (reassigned at line 646)
  retrieved_so_far,  \* the running record counter
  stop,              \* load_data's local 'stop'
  pandas_df_list,    \* frames accumulated by the Pandas branch
  all_data,          \* lines accumulated by the native CSV branch
  cur,               \* the (physical_path, data) item last pulled from data_it
  idx,               \* partitions pulled so far from the underlying storage
  yielded,           \* the frames handed to the caller, in order
  error,             \* the exception load_data ended with, or NoError
  events,            \* calls made to the collaborators and diagnostics, in order
  tpc,               \* _load_external_data's position
  active_state,      \* its local 'active_state' (<<>>: None)
  complete_cleanup,  \* its local 'complete_cleanup'
  pending,           \* the exception in flight while its finally block runs
  app_state,         \* the session: "INACTIVE" | "ACTIVE" | "PAUSED"
  dev_context,       \* the session's development context (node ids)
  active_context,    \* the session's active context (<<>>: None, else <<node ids>>)
  saved_dev_state,   \* the slot of save_dev_state / load_dev_state (<<>>: empty)
  session0,          \* the session as it was before the call
  aux                \* the call in progress at the other entry points (resolver, node
                     \* lookup, preview_data, a second load); NoAux while load_data runs alone

NoAux == [kind |-> "none"]

loadLocals == <<limit, retrieved_so_far, stop, pandas_df_list, all_data>>
transLocals == <<tpc, active_state, complete_cleanup, pending>>
sessionVars == <<app_state, dev_context, active_context, saved_dev_state>>
vars == <<args, ctl, pc, limit, retrieved_so_far, stop, pandas_df_list, all_data, cur, idx,
          yielded, error, events, tpc, active_state, complete_cleanup, pending,
          app_state, dev_context, active_context, saved_dev_state, session0, aux>>

\* ----------------------------------------------------------------- inputs
\* limit: None, an int, or a value of another type (a float, a string)
LimitNone == [kind |-> "none", val |-> 0]
LimitOther == [kind |-> "other", val |-> 0]
LimitInt(n) == [kind |-> "int", val |-> n]
Limits == {LimitNone, LimitOther} \cup {LimitInt(n) : n \in -1..MaxLimit}
GoodLimits == {LimitNone} \cup {LimitInt(n) : n \in 1..MaxLimit}

PartitionSeqs == UNION {[1..n -> 0..MaxLines] : n \in 0..MaxParts}

\* representation x data format x header flag, as the decode branches tell them apart
Decodings ==
  {[format |-> "PANDAS", data_format |-> df, data_header_exists |-> TRUE] :
      df \in {"csv", "parquet", "json", "orc"}}
  \cup {[format |-> "PANDAS", data_format |-> "csv", data_header_exists |-> FALSE]}
  \cup {[format |-> "NONE", data_format |-> "csv", data_header_exists |-> h] : h \in BOOLEAN}
  \cup {[format |-> "ORIGINAL", data_format |-> "csv", data_header_exists |-> FALSE]}
  \cup {[format |-> "NONE", data_format |-> "parquet", data_header_exists |-> FALSE]}
  \cup {[format |-> "SPARK", data_format |-> "csv", data_header_exists |-> TRUE]}

\* one decoding per branch, for the routes whose subject is the partition source
BranchDecodings ==
  {[format |-> "PANDAS", data_format |-> "csv", data_header_exists |-> TRUE],
   [format |-> "NONE", data_format |-> "csv", data_header_exists |-> FALSE],
   [format |-> "NONE", data_format |-> "parquet", data_header_exists |-> FALSE],
   [format |-> "SPARK", data_format |-> "csv", data_header_exists |-> TRUE]}

Sessions ==
  {[app_state |-> "INACTIVE", active_context |-> <<>>, dev_context |-> d] :
      d \in {{}, {"src"}, {"src", "pending"}}}
  \cup {[app_state |-> "ACTIVE", active_context |-> <<{"src"}>>, dev_context |-> d] :
      d \in {{"src"}, {"src", "pending"}}}
  \cup {[app_state |-> "PAUSED", active_context |-> <<{"src"}>>, dev_context |-> {"src"}]}
DefaultSession == [app_state |-> "INACTIVE", active_context |-> <<>>, dev_context |-> {"src"}]

Args(ok, l, dec, it, nk, poll, mat, src, parts) ==
  [output_ok |-> ok, limit |-> l, format |-> dec.format, iterate |-> it,
   node_kind |-> nk, poll_present |-> poll, is_material |-> mat, source |-> src,
   data_format |-> dec.data_format, data_header_exists |-> dec.data_header_exists,
   partitions |-> parts]

AnyDecoding == [format |-> "NONE", data_format |-> "csv", data_header_exists |-> FALSE]
BadFormat == [format |-> "BAD", data_format |-> "csv", data_header_exists |-> FALSE]

\* calls rejected before any partition is looked at
RejectedCalls ==
  {Args(FALSE, LimitInt(1), AnyDecoding, FALSE, "internal", TRUE, TRUE, "S3", <<>>)}
  \cup {Args(TRUE, l, AnyDecoding, it, nk, TRUE, TRUE, "GLUE_TABLE", <<1>>) :
          l \in Limits \ GoodLimits, it \in BOOLEAN, nk \in {"internal", "external"}}
  \cup {Args(TRUE, l, BadFormat, FALSE, "internal", TRUE, TRUE, "S3", <<1>>) : l \in GoodLimits}
  \cup {Args(TRUE, l, AnyDecoding, it, "external", TRUE, FALSE, src, <<1>>) :
          l \in GoodLimits, it \in BOOLEAN, src \in {"S3", "GLUE_TABLE"}}
  \cup {Args(TRUE, LimitNone, AnyDecoding, FALSE, "other", TRUE, TRUE, "S3", <<>>)}

\* calls that reach the partitions
ReadingCalls ==
  {Args(TRUE, l, dec, it, "internal", TRUE, TRUE, "S3", parts) :
      l \in GoodLimits, dec \in Decodings, it \in BOOLEAN, parts \in PartitionSeqs}
  \cup {Args(TRUE, l, dec, it, "internal", FALSE, TRUE, "S3", parts) :
      l \in GoodLimits, dec \in BranchDecodings, it \in BOOLEAN, parts \in PartitionSeqs}
  \cup {Args(TRUE, l, dec, it, "external", TRUE, TRUE, src, parts) :
      l \in GoodLimits, dec \in BranchDecodings, it \in BOOLEAN,
      src \in {"S3", "GLUE_TABLE"}, parts \in PartitionSeqs}
  \cup {Args(TRUE, l, AnyDecoding, it, "external", TRUE, TRUE, "OTHER", <<>>) :
      l \in GoodLimits, it \in BOOLEAN}

IsTransient(a) == a.node_kind = "external" /\ a.source = "GLUE_TABLE" /\ a.is_material

Init ==
  /\ args \in RejectedCalls \cup ReadingCalls
  /\ \E s \in Sessions :
       /\ (~IsTransient(args) \/ ~args.output_ok \/ args.limit \notin GoodLimits)
            => s = DefaultSession
       /\ app_state = s.app_state
       /\ dev_context = s.dev_context
       /\ active_context = s.active_context
       /\ session0 = s
  /\ saved_dev_state = <<>>
  /\ ctl = "caller"
  /\ pc = "unstarted"
  /\ limit = args.limit
  /\ retrieved_so_far = 0
  /\ stop = FALSE
  /\ pandas_df_list = <<>>
  /\ all_data = <<>>
  /\ cur = NoItem
  /\ idx = 0
  /\ yielded = <<>>
  /\ error = NoError
  /\ events = <<>>
  /\ tpc = "unstarted"
  /\ active_state = <<>>
  /\ complete_cleanup = TRUE
  /\ pending = NoError
  /\ aux = NoAux

\* ------------------------------------------------------------ pure helpers
\* a validation that lets 0 through (limit < 0 for limit <= 0)
InvalidLimit_ZeroAllowed(l) == l.kind # "none" /\ (l.kind # "int" \/ l.val < 0)

\* line 447: limit is not None and (not isinstance(limit, int) or limit <= 0)
InvalidLimit(l) == l.kind # "none" /\ (l.kind # "int" \/ l.val <= 0)

\* Python's seq[:e]: a negative e counts from the end
PySliceTo(s, e) ==
  IF e >= 0 THEN SubSeq(s, 1, Min(e, Len(s))) ELSE SubSeq(s, 1, Max(0, Len(s) + e))

\* the payload of partition p, parsed into lines: with a declared header row a textual
\* partition starts with the header line
PartitionLines(p) ==
  LET n == args.partitions[p] IN
  IF n = 0 THEN <<>>
  ELSE IF args.data_format = "csv" /\ args.data_header_exists
       THEN <<Header>> \o [k \in 1..(n - 1) |-> Row(p, k)]
       ELSE [k \in 1..n |-> Row(p, k)]

Item(p) == [has |-> TRUE, part |-> p, lines |-> PartitionLines(p)]

\* the decode branch taken at lines 497 / 553 / 639 / 680
Branch ==
  IF args.format = "PANDAS" THEN "pandas"
  ELSE IF args.format = "SPARK" THEN "spark"
  ELSE IF args.data_format = "csv" THEN "csv"
  ELSE "raw"

\* every external source served through a transient node
DataSource_AllTransient ==
  IF args.node_kind = "internal" THEN "storage"
  ELSE IF args.source \in {"S3", "GLUE_TABLE"} THEN "transient"
  ELSE "empty"

\* where data_it comes from: lines 473, 484 and 1097 / 1111
DataSource ==
  IF args.node_kind = "internal" THEN "storage"
  ELSE IF args.source = "S3" THEN "s3"
  ELSE IF args.source = "GLUE_TABLE" THEN "transient"
  ELSE "empty"

\* the limit test of lines 529-534, 616-621 and 653-657 applied to the rows just decoded:
\* the new counter, the stop flag and the rows kept
LimitStep(rows) ==
  LET r == retrieved_so_far + Len(rows)
      hit == limit.kind # "none" /\ r >= limit.val
      over == limit.kind # "none" /\ r > limit.val
  IN [retrieved |-> IF over THEN limit.val ELSE r,
      stop |-> hit,
      rows |-> IF over THEN PySliceTo(rows, limit.val - r) ELSE rows]

\* pd.read_csv(..., nrows=limit - retrieved_so_far): the first line names the columns,
\* at most nrows of the following lines become rows
PandasReadCsv(lines, nrows) ==
  [kind |-> "pandas", cols |-> <<lines[1]>>,
   lines |-> SubSeq(lines, 2, Min(Len(lines), 1 + nrows))]

\* lines 668-672: the merged native result after one more partition
ExtendAllData(acc, csv_data) ==
  IF args.data_header_exists /\ Len(acc) > 0 /\ Len(csv_data) > 0 /\ acc[1] = csv_data[1]
  THEN acc \o Tail(csv_data)
  ELSE acc \o csv_data

\* line 549: pd.concat(...) of more than one frame, else the list's first element
MergePandas(fs) == [kind |-> "pandas", cols |-> fs[1].cols, lines |-> ConcatLines(fs)]

\* ------------------------------------------------- session (Application)
\* Application.activate: the development context becomes the active one
Activate(dev) == [app_state |-> "ACTIVE", active_context |-> <<dev>>]
\* Application.pause: a running application is paused
Pause(s) == IF s = "ACTIVE" THEN "PAUSED" ELSE s

\* ------------------------------------------------------- load_data: ends
Log(e) == events' = Append(events, e)

\* load_data ends (raise or return): control is back with the caller
Finish(err) ==
  /\ pc' = "done"
  /\ error' = err
  /\ ctl' = "caller"

Yield(frame, at) ==
  /\ yielded' = Append(yielded, frame)
  /\ pc' = at
  /\ ctl' = "caller"

SuspendPoints == {"unstarted", "yield_none", "yield_part", "yield_final"}
\* load_data is over: it returned or raised ("done") or it was closed ("closed")
Ended == {"done", "closed"}

\* ----------------------------------------------------------- the caller
\* next(it): resume load_data where it was suspended
CallerNext ==
  /\ ctl = "caller"
  /\ pc \in SuspendPoints
  /\ ctl' = "load_data"
  /\ pc' = CASE pc = "unstarted" -> "validate"
             [] pc = "yield_none" -> "load_internal"
             [] pc = "yield_part" -> IF Branch # "raw" /\ stop THEN "end" ELSE "pull"
             [] pc = "yield_final" -> "return"
  /\ UNCHANGED <<args, loadLocals, cur, idx, yielded, error, events, transLocals,
                 sessionVars, session0, aux>>

\* the caller drops the iterator: a suspended generator is closed (GeneratorExit at
\* its yield; load_data has no handler around a yield), one never started runs nothing
CallerClose ==
  /\ ctl = "caller"
  /\ pc \in SuspendPoints
  /\ pc' = "closed"
  /\ UNCHANGED <<args, ctl, loadLocals, cur, idx, yielded, error, events, transLocals,
                 sessionVars, session0, aux>>

\* ------------------------------------------------ load_data: lines 438-451
L_Validate ==
  /\ ctl = "load_data" /\ pc = "validate"
  /\ IF ~args.output_ok \/ InvalidLimit(limit) \/ args.format = "BAD"
     THEN Finish("ValueError")
     ELSE pc' = "dispatch" /\ UNCHANGED <<ctl, error>>
  /\ UNCHANGED <<args, loadLocals, cur, idx, yielded, events, transLocals,
                 sessionVars, session0, aux>>

\* ------------------------------------------------ load_data: lines 453-488
\* an absent output reported by raising instead of "yield None"
ProbeAbsent_Raising ==
  /\ events' = events \o <<"poll", "absent_diag">>
  /\ Finish("ValueError")
  /\ UNCHANGED yielded

\* lines 466-469: the probed output is absent: a diagnostic, then "yield None"
ProbeAbsent ==
  /\ events' = events \o <<"poll", "absent_diag">>
  /\ Yield(NoneFrame, "yield_none")
  /\ UNCHANGED error

\* the materialization check left out
PartialFilter_Ignored == FALSE

\* line 478: not materialized_output.domain_spec.dimension_filter_spec.is_material()
PartialFilter == ~args.is_material

L_Dispatch ==
  /\ ctl = "load_data" /\ pc = "dispatch"
  /\ CASE args.node_kind = "internal" ->
            IF args.poll_present
            THEN /\ Log("poll")
                 /\ pc' = "load_internal"
                 /\ UNCHANGED <<ctl, error, yielded>>
            ELSE ProbeAbsent
       [] args.node_kind = "external" ->
            IF PartialFilter
            THEN Finish("ValueError") /\ UNCHANGED <<events, yielded>>
            ELSE /\ Log("materialize")
                 /\ pc' = "select"
                 /\ UNCHANGED <<ctl, error, yielded>>
       [] OTHER -> Finish("ValueError") /\ UNCHANGED <<events, yielded>>
  /\ UNCHANGED <<args, loadLocals, cur, idx, transLocals, sessionVars, session0, aux>>

\* lines 471-473: platform.storage.load_internal(materialized_output)
L_LoadInternal ==
  /\ ctl = "load_data" /\ pc = "load_internal"
  /\ Log("load_internal")
  /\ pc' = "select"
  /\ UNCHANGED <<args, ctl, loadLocals, cur, idx, yielded, error, transLocals,
                 sessionVars, session0, aux>>

\* lines 490-497, 553, 639-646, 680: pick the decode branch; the native CSV branch
\* reassigns limit (limit + 1 with a declared header: a TypeError when limit is None)
L_Select ==
  /\ ctl = "load_data" /\ pc = "select"
  /\ IF Branch = "csv" /\ args.data_header_exists
     THEN IF limit.kind = "none"
          THEN Finish("TypeError") /\ UNCHANGED limit
          ELSE /\ limit' = LimitInt(limit.val + 1)
               /\ pc' = "pull"
               /\ UNCHANGED <<ctl, error>>
     ELSE /\ pc' = IF Branch = "spark" THEN "spark_load" ELSE "pull"
          /\ UNCHANGED <<ctl, error, limit>>
  /\ UNCHANGED <<args, retrieved_so_far, stop, pandas_df_list, all_data, cur, idx, yielded,
                 events, transLocals, sessionVars, session0, aux>>

\* lines 554-586: Spark reads the materialized path itself; any failure is swallowed
L_SparkLoad ==
  /\ ctl = "load_data" /\ pc = "spark_load"
  /\ \E ok \in BOOLEAN :
       IF ok THEN Yield(SparkFrame, "yield_final")
       ELSE pc' = "pull" /\ UNCHANGED <<ctl, yielded>>
  /\ UNCHANGED <<args, loadLocals, cur, idx, error, events, transLocals,
                 sessionVars, session0, aux>>

\* --------------------------------------- pulling the next item of data_it
\* internal storage, or the S3 listing of lines 1097-1110
PullStorage ==
  /\ ctl = "load_data" /\ pc = "pull"
  /\ DataSource \in {"storage", "s3"}
  /\ IF idx < Len(args.partitions)
     THEN /\ Log("read")
          /\ \E ok \in BOOLEAN :
               IF ok
               THEN /\ cur' = Item(idx + 1)
                    /\ idx' = idx + 1
                    /\ pc' = "item"
                    /\ UNCHANGED <<ctl, error>>
               ELSE Finish("IOError") /\ UNCHANGED <<cur, idx>>
     ELSE /\ pc' = "end"
          /\ UNCHANGED <<ctl, error, cur, idx, events>>
  /\ UNCHANGED <<args, loadLocals, yielded, transLocals, sessionVars, session0, aux>>

\* an external source that is neither S3 nor a Glue table: the generator ends at once
PullEmpty ==
  /\ ctl = "load_data" /\ pc = "pull"
  /\ DataSource = "empty"
  /\ pc' = "end"
  /\ UNCHANGED <<args, ctl, loadLocals, cur, idx, yielded, error, events, transLocals,
                 sessionVars, session0, aux>>

\* the transient load: start the generator, or resume it after its yield
PullTransient ==
  /\ ctl = "load_data" /\ pc = "pull"
  /\ DataSource = "transient"
  /\ tpc \in {"unstarted", "yielded"}
  /\ ctl' = "source"
  /\ tpc' = IF tpc = "unstarted" THEN "check_node" ELSE "read"
  /\ UNCHANGED <<args, pc, loadLocals, cur, idx, yielded, error, events, active_state,
                 complete_cleanup, pending, sessionVars, session0, aux>>

\* --------------------------------------------------- decoding one item
\* lines 505-506, 590-591, 648-649: "if not data: continue"
D_SkipEmpty ==
  /\ ctl = "load_data" /\ pc = "item"
  /\ Branch # "raw"
  /\ cur.lines = <<>>
  /\ pc' = "pull"
  /\ UNCHANGED <<args, ctl, loadLocals, cur, idx, yielded, error, events, transLocals,
                 sessionVars, session0, aux>>

\* streaming mode that keeps the frame instead of handing it out
Emit_Buffering(frame, step) ==
  /\ retrieved_so_far' = step.retrieved
  /\ stop' = step.stop
  /\ pc' = IF step.stop THEN "end" ELSE "pull"
  /\ pandas_df_list' = IF Branch = "pandas" THEN Append(pandas_df_list, frame)
                       ELSE pandas_df_list
  /\ all_data' = IF Branch = "csv" THEN ExtendAllData(all_data, frame.lines)
                 ELSE all_data
  /\ UNCHANGED <<ctl, yielded, error>>

\* after the limit test: hand the frame out (iterate) or keep it, then break or loop on
Emit(frame, step) ==
  /\ retrieved_so_far' = step.retrieved
  /\ stop' = step.stop
  /\ IF args.iterate
     THEN Yield(frame, "yield_part") /\ UNCHANGED <<pandas_df_list, all_data>>
     ELSE /\ pc' = IF step.stop THEN "end" ELSE "pull"
          /\ pandas_df_list' = IF Branch = "pandas" THEN Append(pandas_df_list, frame)
                               ELSE pandas_df_list
          /\ all_data' = IF Branch = "csv" THEN ExtendAllData(all_data, frame.lines)
                         ELSE all_data
          /\ UNCHANGED <<ctl, yielded>>
  /\ UNCHANGED error

\* lines 507-545: the Pandas branch
D_Pandas ==
  /\ ctl = "load_data" /\ pc = "item"
  /\ Branch = "pandas"
  /\ cur.lines # <<>>
  /\ CASE args.data_format = "csv" /\ limit.kind = "none" ->
            \* nrows = limit - retrieved_so_far with limit None
            Finish("TypeError")
            /\ UNCHANGED <<retrieved_so_far, stop, pandas_df_list, all_data, yielded>>
       [] args.data_format = "csv" /\ limit.kind # "none" ->
            LET df == PandasReadCsv(cur.lines, limit.val - retrieved_so_far)
                step == LimitStep(df.lines)
            IN Emit([df EXCEPT !.lines = step.rows], step)
       [] args.data_format \in {"parquet", "json"} ->
            LET step == LimitStep(cur.lines)
            IN Emit([kind |-> "pandas", cols |-> <<>>, lines |-> step.rows], step)
       [] OTHER ->
            Finish("NotImplementedError")
            /\ UNCHANGED <<retrieved_so_far, stop, pandas_df_list, all_data, yielded>>
  /\ UNCHANGED <<args, limit, cur, idx, events, transLocals, sessionVars, session0, aux>>

\* lines 650-675: the native CSV branch
D_Csv ==
  /\ ctl = "load_data" /\ pc = "item"
  /\ Branch = "csv"
  /\ cur.lines # <<>>
  /\ LET step == LimitStep(cur.lines)
     IN Emit([kind |-> "csv", cols |-> <<>>, lines |-> step.rows], step)
  /\ UNCHANGED <<args, limit, cur, idx, events, transLocals, sessionVars, session0, aux>>

\* line 592: spark.sparkContextc is not an attribute of a SparkSession
D_Spark ==
  /\ ctl = "load_data" /\ pc = "item"
  /\ Branch = "spark"
  /\ cur.lines # <<>>
  /\ Finish("AttributeError")
  /\ UNCHANGED <<args, loadLocals, cur, idx, yielded, events, transLocals,
                 sessionVars, session0, aux>>

\* line 683: yield from data_it, every item as it is
D_Raw ==
  /\ ctl = "load_data" /\ pc = "item"
  /\ Branch = "raw"
  /\ Yield([kind |-> "raw", cols |-> <<>>, lines |-> cur.lines], "yield_part")
  /\ UNCHANGED <<args, loadLocals, cur, idx, error, events, transLocals,
                 sessionVars, session0, aux>>

\* ------------------------------------------- after the loop over data_it
\* lines 547-552, 634-637, 677-679: merged mode yields the one merged frame
L_End ==
  /\ ctl = "load_data" /\ pc = "end"
  /\ IF args.iterate \/ Branch = "raw"
     THEN Finish(NoError) /\ UNCHANGED yielded
     ELSE CASE Branch = "pandas" ->
                 IF pandas_df_list = <<>>
                 THEN Finish("IndexError") /\ UNCHANGED yielded   \* pandas_df_list[0]
                 ELSE Yield(MergePandas(pandas_df_list), "yield_final") /\ UNCHANGED error
            [] Branch = "csv" ->
                 Yield([kind |-> "csv", cols |-> <<>>, lines |-> all_data], "yield_final")
                 /\ UNCHANGED error
            [] OTHER -> Yield(NoneFrame, "yield_final") /\ UNCHANGED error  \* merged_df is None
  /\ UNCHANGED <<args, loadLocals, cur, idx, events, transLocals, sessionVars, session0, aux>>

\* resumed after the last yield: the generator returns
L_Return ==
  /\ ctl = "load_data" /\ pc = "return"
  /\ Finish(NoError)
  /\ UNCHANGED <<args, loadLocals, cur, idx, yielded, events, transLocals,
                 sessionVars, session0, aux>>

\* ------------------------------ _load_external_data, the Glue table branch
\* (T_Leave_Swallow: an exception of the generator turned into its plain end)
\* the generator ends: with an exception that load_data's loop does not catch, by
\* exhaustion (StopIteration ends the loop), or closed after load_data itself ended
T_Leave_Swallow(exc) ==
  IF pc \in Ended THEN ctl' = "caller" /\ UNCHANGED <<pc, error>>
  ELSE ctl' = "load_data" /\ pc' = "end" /\ UNCHANGED error

T_Leave(exc) ==
  IF pc \in Ended THEN ctl' = "caller" /\ UNCHANGED <<pc, error>>
  ELSE IF exc \in {NoError, "GeneratorExit"}
       THEN ctl' = "load_data" /\ pc' = "end" /\ UNCHANGED error
       ELSE Finish(exc)

\* a check of the source node that lets the load go on without it
T_CheckNode_Lenient ==
  /\ ctl = "source" /\ tpc = "check_node"
  /\ Log("get_data")
  /\ tpc' = "save"
  /\ UNCHANGED <<ctl, pc, error>>
  /\ UNCHANGED <<args, loadLocals, cur, idx, yielded, active_state, complete_cleanup,
                 pending, sessionVars, session0, aux>>

\* lines 1112-1119: the source node must be in the development context
T_CheckNode ==
  /\ ctl = "source" /\ tpc = "check_node"
  /\ Log("get_data")
  /\ IF "src" \in dev_context
     THEN tpc' = "save" /\ UNCHANGED <<ctl, pc, error>>
     ELSE tpc' = "done" /\ T_Leave("ValueError")
  /\ UNCHANGED <<args, loadLocals, cur, idx, yielded, active_state, complete_cleanup,
                 pending, sessionVars, session0, aux>>

\* lines 1121-1125: save_dev_state(), then copy the active context
T_Save ==
  /\ ctl = "source" /\ tpc = "save"
  /\ Log("save_dev_state")
  /\ saved_dev_state' = <<dev_context>>
  /\ active_state' = active_context
  /\ tpc' = "create"
  /\ UNCHANGED <<args, ctl, pc, loadLocals, cur, idx, yielded, error, complete_cleanup,
                 pending, app_state, dev_context, active_context, session0, aux>>

\* lines 1126-1130: create_data(...) runs before the try block: when it raises,
\* nothing of the finally block runs
T_Create ==
  /\ ctl = "source" /\ tpc = "create"
  /\ Log("create_data")
  /\ \E ok \in BOOLEAN :
       IF ok
       THEN /\ dev_context' = dev_context \cup {"temp"}
            /\ tpc' = "execute"
            /\ UNCHANGED <<ctl, pc, error>>
       ELSE /\ tpc' = "done"
            /\ T_Leave("CreateError")
            /\ UNCHANGED dev_context
  /\ UNCHANGED <<args, loadLocals, cur, idx, yielded, active_state, complete_cleanup,
                 pending, app_state, active_context, saved_dev_state, session0, aux>>

\* line 1133: execute(temp_data) inside try/finally with no except clause; executing
\* launches (activates) the application with the development context
T_Execute ==
  /\ ctl = "source" /\ tpc = "execute"
  /\ Log("execute")
  /\ \E outcome \in {"ok", "failed", "failed_before_activation"} :
       /\ IF outcome = "failed_before_activation"
          THEN UNCHANGED <<app_state, active_context>>
          ELSE /\ app_state' = Activate(dev_context).app_state
               /\ active_context' = Activate(dev_context).active_context
       /\ IF outcome = "ok"
          THEN tpc' = "load" /\ UNCHANGED pending
          ELSE tpc' = "cleanup" /\ pending' = "ExecuteError"
  /\ UNCHANGED <<args, ctl, pc, loadLocals, cur, idx, yielded, error, active_state,
                 complete_cleanup, dev_context, saved_dev_state, session0, aux>>

\* line 1138: load_internal(temp_data.signal())
T_LoadInternal ==
  /\ ctl = "source" /\ tpc = "load"
  /\ Log("load_internal")
  /\ tpc' = "read"
  /\ UNCHANGED <<args, ctl, pc, loadLocals, cur, idx, yielded, error, active_state,
                 complete_cleanup, pending, sessionVars, session0, aux>>

\* lines 1139-1140: for data in data_it: yield data
T_Read ==
  /\ ctl = "source" /\ tpc = "read"
  /\ IF idx < Len(args.partitions)
     THEN /\ Log("read")
          /\ \E ok \in BOOLEAN :
               IF ok
               THEN /\ cur' = Item(idx + 1)
                    /\ idx' = idx + 1
                    /\ tpc' = "yielded"
                    /\ ctl' = "load_data"
                    /\ pc' = "item"
                    /\ UNCHANGED pending
               ELSE /\ tpc' = "cleanup"
                    /\ pending' = "IOError"
                    /\ UNCHANGED <<cur, idx, ctl, pc>>
     ELSE /\ tpc' = "cleanup"
          /\ UNCHANGED <<cur, idx, ctl, pc, events, pending>>
  /\ UNCHANGED <<args, loadLocals, yielded, error, active_state, complete_cleanup,
                 sessionVars, session0, aux>>

\* a deletion whose exception is not caught: it leaves the finally block at once
T_Delete_Raising ==
  /\ ctl = "source" /\ tpc = "cleanup"
  /\ Log("delete_internal")
  /\ \E outcome \in {"deleted", "false", "raised"} :
       /\ complete_cleanup' = (outcome = "deleted")
       /\ IF outcome = "raised"
          THEN tpc' = "done" /\ T_Leave("DeleteError")
          ELSE tpc' = "restore" /\ UNCHANGED <<ctl, pc, error>>
  /\ UNCHANGED <<args, loadLocals, cur, idx, yielded, active_state,
                 pending, sessionVars, session0, aux>>

\* lines 1145-1153: delete_internal(...) returning false or raising is not an error
T_Delete ==
  /\ ctl = "source" /\ tpc = "cleanup"
  /\ Log("delete_internal")
  /\ \E outcome \in {"deleted", "false", "raised"} :
       complete_cleanup' = (outcome = "deleted")
  /\ tpc' = "restore"
  /\ UNCHANGED <<args, ctl, pc, loadLocals, cur, idx, yielded, error, active_state,
                 pending, sessionVars, session0, aux>>

\* lines 1155-1167: the diagnostic, then activate() with the copied active context
\* or pause()
T_Restore ==
  /\ ctl = "source" /\ tpc = "restore"
  /\ events' = events \o (IF complete_cleanup THEN <<>> ELSE <<"cleanup_diag">>)
                      \o (IF active_state # <<>> THEN <<"activate">> ELSE <<"pause">>)
  /\ IF active_state # <<>>
     THEN /\ dev_context' = active_state[1]
          /\ app_state' = Activate(active_state[1]).app_state
          /\ active_context' = Activate(active_state[1]).active_context
     ELSE /\ app_state' = Pause(app_state)
          /\ UNCHANGED <<dev_context, active_context>>
  /\ tpc' = "load_dev"
  /\ UNCHANGED <<args, ctl, pc, loadLocals, cur, idx, yielded, error, active_state,
                 complete_cleanup, pending, saved_dev_state, session0, aux>>

\* line 1170: load_dev_state() restores the saved development context and empties
\* the slot; the finally block is over and the exception in flight goes on
T_LoadDevState ==
  /\ ctl = "source" /\ tpc = "load_dev"
  /\ Log("load_dev_state")
  /\ dev_context' = IF saved_dev_state # <<>> THEN saved_dev_state[1] ELSE dev_context
  /\ saved_dev_state' = <<>>
  /\ tpc' = "done"
  /\ T_Leave(pending)
  /\ UNCHANGED <<args, loadLocals, cur, idx, yielded, active_state, complete_cleanup,
                 pending, app_state, active_context, session0, aux>>

\* load_data has ended while the transient generator was suspended at its yield:
\* the generator is closed when it is collected (GeneratorExit at line 1140)
Finalize ==
  /\ ctl = "caller" /\ pc \in Ended
  /\ tpc = "yielded"
  /\ ctl' = "source"
  /\ tpc' = "cleanup"
  /\ pending' = "GeneratorExit"
  /\ UNCHANGED <<args, pc, loadLocals, cur, idx, yielded, error, events, active_state,
                 complete_cleanup, sessionVars, session0, aux>>

\* ---------------------------------------------------------- specification
Next ==
  \/ CallerNext \/ CallerClose
  \/ L_Validate \/ L_Dispatch \/ L_LoadInternal \/ L_Select \/ L_SparkLoad
  \/ PullStorage \/ PullEmpty \/ PullTransient
  \/ D_SkipEmpty \/ D_Pandas \/ D_Csv \/ D_Spark \/ D_Raw
  \/ L_End \/ L_Return
  \/ T_CheckNode \/ T_Save \/ T_Create \/ T_Execute \/ T_LoadInternal \/ T_Read
  \/ T_Delete \/ T_Restore \/ T_LoadDevState \/ Finalize

Spec == Init /\ [][Next]_vars

\* ============================================ the other entry points
\* While one of them is modelled, load_data stays where construction left it.
loadVars == <<args, ctl, pc, limit, retrieved_so_far, stop, pandas_df_list, all_data, cur,
              idx, yielded, error, events, tpc, active_state, complete_cleanup, pending>>

\* load_data and _load_external_data not yet started
LocalsIdle ==
  /\ ctl = "caller"
  /\ pc = "unstarted"
  /\ limit = args.limit
  /\ retrieved_so_far = 0
  /\ stop = FALSE
  /\ pandas_df_list = <<>>
  /\ all_data = <<>>
  /\ cur = NoItem
  /\ idx = 0
  /\ yielded = <<>>
  /\ error = NoError
  /\ events = <<>>
  /\ tpc = "unstarted"
  /\ active_state = <<>>
  /\ complete_cleanup = TRUE
  /\ pending = NoError

LoadIdle ==
  /\ args = Args(TRUE, LimitNone, AnyDecoding, FALSE, "internal", TRUE, TRUE, "S3", <<>>)
  /\ LocalsIdle

SessionIdle ==
  /\ app_state = DefaultSession.app_state
  /\ dev_context = DefaultSession.dev_context
  /\ active_context = DefaultSession.active_context
  /\ saved_dev_state = <<>>
  /\ session0 = DefaultSession

\* ------------------------- _create_or_update_data_with_defaults (948-1080)
MaxInputs == 3     \* inputs of one node

\* An optional argument is <<>> (None) or <<value>>.
\* A signal, as far as the resolver looks at it: is_dependent, the names of its flattened
\* dimension map in order, and the dimensions its filter binds to a literal value.
Signal(dep, dims, mat) == [is_dependent |-> dep, dims |-> dims, material |-> mat]

DimOrders == {<<>>, <<"a">>, <<"b">>, <<"a", "b">>, <<"b", "a">>}
DimsOf(ds) == {ds[k] : k \in 1..Len(ds)}

\* the first input in full; of the other inputs only is_dependent and the exposed names
\* are read
FirstSignals ==
  {Signal(FALSE, ds, {}) : ds \in DimOrders}
  \cup UNION {{Signal(TRUE, ds, m) : m \in SUBSET DimsOf(ds)} : ds \in DimOrders}
OtherSignals ==
  {Signal(dep, ds, {}) : dep \in BOOLEAN, ds \in {<<>>, <<"a">>, <<"b">>, <<"a", "b">>}}
InputLists ==
  {<<>>} \cup UNION {{<<f>> \o t : f \in FirstSignals, t \in [1..(n - 1) -> OtherSignals]} :
                       n \in 1..MaxInputs}

ExplicitSpec == <<"x", "a">>
ExplicitLinks == <<[dim |-> "x", func |-> "fn", kind |-> "dimension", input |-> 1,
                    value |-> "none"]>>

ResolverCalls ==
  {[inputs |-> i, output_dimension_spec |-> s, output_dim_links |-> l,
    compute_targets |-> t.compute_targets, is_update |-> t.is_update] :
      i \in {<<>>} \cup {<<il>> : il \in InputLists},
      s \in {<<>>, <<ExplicitSpec>>},
      l \in {<<>>, <<<<>>>>, <<ExplicitLinks>>},
      t \in {[compute_targets |-> "none", is_update |-> FALSE],
             [compute_targets |-> "str", is_update |-> FALSE],
             [compute_targets |-> "list", is_update |-> FALSE],
             [compute_targets |-> "list", is_update |-> TRUE]}}

\* 'if inputs:' and 'if not output_dim_links:': None and the empty list are both falsy
Truthy(opt) == opt # <<>> /\ opt[1] # <<>>

\* (dim_name, None, SignalDimensionTuple(<input i>.clone(None), <its dimension dim_name>))
DimLink(d, i) == [dim |-> d, func |-> "None", kind |-> "dimension", input |-> i,
                  value |-> "none"]
\* (dim_name, None, dim_variant.value)
ValueLink(d, v) == [dim |-> d, func |-> "None", kind |-> "value", input |-> 0, value |-> v]

\* dim_variant.value of a dimension the filter binds
MaterialValue(d) == "literal"

\* domain_spec.dimension_spec.find_dimension_by_name(dim_name) found something
Exposes(sig, d) == d \in DimsOf(sig.dims)

\* lines 993-1002: one link per dimension of the first input, to that input
FirstInputLinks_Reversed(sig) ==
  [k \in 1..Len(sig.dims) |-> DimLink(sig.dims[Len(sig.dims) + 1 - k], 1)]

FirstInputLinks(sig) == [k \in 1..Len(sig.dims) |-> DimLink(sig.dims[k], 1)]

\* line 1005: the positions of the inputs that are not dependent, in declaration order
RECURSIVE IndependentUpTo(_, _)
IndependentUpTo(all, n) ==
  IF n = 0 THEN <<>>
  ELSE IF all[n].is_dependent THEN IndependentUpTo(all, n - 1)
  ELSE Append(IndependentUpTo(all, n - 1), n)

IndependentSignals_All(all) == [i \in 1..Len(all) |-> i]

IndependentSignals(all) == IndependentUpTo(all, Len(all))

\* lines 1019-1025: the first candidate that exposes the dimension (0: none)
RECURSIVE FirstExposing(_, _, _)
FirstExposing(all, cands, d) ==
  IF cands = <<>> THEN 0
  ELSE IF Exposes(all[Head(cands)], d) THEN Head(cands)
  ELSE FirstExposing(all, Tail(cands), d)

\* line 1016: the link of a dimension the first input binds to a literal
MaterialLink_AsDimension(d) == DimLink(d, 1)

MaterialLink(d) == ValueLink(d, MaterialValue(d))

\* lines 1004-1030: the loop over the first k dimensions of a dependent first input;
\* it raises at the first dimension left without a link
RECURSIVE DependentLinks(_, _)
DependentLinks(all, k) ==
  IF k = 0 THEN [error |-> NoError, links |-> <<>>]
  ELSE LET prev == DependentLinks(all, k - 1)
           d == all[1].dims[k]
           other == FirstExposing(all, IndependentSignals(all), d)
       IN IF prev.error # NoError THEN prev
          ELSE IF d \in all[1].material
            THEN [prev EXCEPT !.links = Append(@, MaterialLink(d))]
          ELSE IF other = 0 THEN [prev EXCEPT !.error = "ValueError"]
          ELSE [prev EXCEPT !.links = Append(@, DimLink(d, other))]

\* line 975 not taken: an explicit output_dimension_spec leaves both arguments as given
ExplicitSpecResult_Inferring(c) ==
  [error |-> NoError, spec |-> c.output_dimension_spec,
   links |-> IF Truthy(c.output_dim_links) \/ ~Truthy(c.inputs) THEN c.output_dim_links
             ELSE <<FirstInputLinks(c.inputs[1][1])>>]

ExplicitSpecResult(c) ==
  [error |-> NoError, spec |-> c.output_dimension_spec, links |-> c.output_dim_links]

\* lines 1032-1034: no inputs; both are reset
NoInputDefaults_LinksKept(c) ==
  [error |-> NoError, spec |-> <<<<>>>>, links |-> c.output_dim_links]

NoInputDefaults(c) == [error |-> NoError, spec |-> <<<<>>>>, links |-> <<<<>>>>]

\* lines 975-1034: the output spec and links after the defaulting
ResolveDefaults(c) ==
  IF c.output_dimension_spec # <<>> THEN ExplicitSpecResult(c)
  ELSE IF ~Truthy(c.inputs) THEN NoInputDefaults(c)
  ELSE LET all == c.inputs[1]
           first == all[1]
       IN IF Truthy(c.output_dim_links)
            THEN [error |-> NoError, spec |-> <<first.dims>>, links |-> c.output_dim_links]
          ELSE IF ~first.is_dependent
            THEN [error |-> NoError, spec |-> <<first.dims>>,
                  links |-> <<FirstInputLinks(first)>>]
          ELSE LET r == DependentLinks(all, Len(first.dims))
               IN [error |-> r.error, spec |-> <<first.dims>>, links |-> <<r.links>>]

\* the links never passed on
ForwardedLinks_Dropped(links) == <<>>

\* 'output_dim_links if output_dim_links else []' (lines 1052, 1070)
ForwardedLinks(links) == IF Truthy(links) THEN links[1] ELSE <<>>

NotCalled(err) ==
  [error |-> err, called |-> "none", output_dimension_spec |-> <<>>,
   output_dim_links |-> <<>>, compute_targets |-> "none"]

\* lines 975-1080: what the resolver hands to create_data / update_data, or the error
Resolve(c) ==
  LET d == ResolveDefaults(c)
  IN IF d.error # NoError THEN NotCalled(d.error)
     ELSE IF c.compute_targets = "none" THEN NotCalled("ValueError")
     ELSE [error |-> NoError,
           called |-> IF c.is_update THEN "update_data" ELSE "create_data",
           output_dimension_spec |-> d.spec[1],
           output_dim_links |-> ForwardedLinks(d.links),
           compute_targets |-> IF c.compute_targets = "str" THEN "GlueBatchCompute"
                               ELSE c.compute_targets]

ResolverInit ==
  /\ LoadIdle
  /\ SessionIdle
  /\ aux \in {[kind |-> "resolver", phase |-> "called", call |-> c, out |-> NotCalled(NoError)] :
                c \in ResolverCalls}

\* the whole of _create_or_update_data_with_defaults; the node enters the development
\* context only through create_data / update_data
CreateOrUpdateData ==
  /\ aux.kind = "resolver"
  /\ aux.phase = "called"
  /\ LET out == Resolve(aux.call)
     IN /\ aux' = [aux EXCEPT !.phase = "returned", !.out = out]
        /\ dev_context' = IF out.called = "none" THEN dev_context
                          ELSE dev_context \cup {"node"}
  /\ UNCHANGED <<loadVars, app_state, active_context, saved_dev_state, session0>>

ResolverNext == CreateOrUpdateData

SpecResolver == ResolverInit /\ [][ResolverNext]_vars

\* ------------------------------------- data / timer / metric / alarm (267-311)
MaxMapped == 3     \* nodes one id maps to, over this application and its upstreams

NodeNames == {"own", "upstream"}
\* what get_data / get_timer / get_metric / get_alarm hand back: None or a list
MappedLists == {<<>>} \cup {<<l>> : l \in UNION {[1..n -> NodeNames] : n \in 0..MaxMapped}}

Returned(node) == [error |-> NoError, node |-> <<node>>]
ReturnedNone == [error |-> NoError, node |-> <<>>]
RaisedValueError == [error |-> "ValueError", node |-> <<>>]

\* lines 267-276
DataOf_First(marshalers) ==
  IF Truthy(marshalers) THEN Returned(marshalers[1][1]) ELSE ReturnedNone

DataOf(marshalers) ==
  IF Truthy(marshalers)
    THEN IF Len(marshalers[1]) > 1 THEN RaisedValueError ELSE Returned(marshalers[1][1])
  ELSE ReturnedNone

\* lines 278-286
TimerOf(marshalers) ==
  IF Truthy(marshalers)
    THEN IF Len(marshalers[1]) > 1 THEN RaisedValueError ELSE Returned(marshalers[1][1])
  ELSE ReturnedNone

\* lines 288-298
MetricOf(marshalers) ==
  IF Truthy(marshalers)
    THEN IF Len(marshalers[1]) > 1 THEN RaisedValueError ELSE Returned(marshalers[1][1])
  ELSE ReturnedNone

\* lines 300-311
AlarmOf(marshalers) ==
  IF Truthy(marshalers)
    THEN IF Len(marshalers[1]) > 1 THEN RaisedValueError ELSE Returned(marshalers[1][1])
  ELSE ReturnedNone

LookupInit ==
  /\ LoadIdle
  /\ SessionIdle
  /\ aux \in {[kind |-> "lookup", phase |-> "called", api |-> a, marshalers |-> ms,
               out |-> ReturnedNone] :
                a \in {"data", "timer", "metric", "alarm"}, ms \in MappedLists}

\* lines 267-276
Data ==
  /\ aux.kind = "lookup"
  /\ aux.phase = "called"
  /\ aux.api = "data"
  /\ aux' = [aux EXCEPT !.phase = "returned", !.out = DataOf(aux.marshalers)]
  /\ UNCHANGED <<loadVars, sessionVars, session0>>

\* lines 278-286
Timer ==
  /\ aux.kind = "lookup"
  /\ aux.phase = "called"
  /\ aux.api = "timer"
  /\ aux' = [aux EXCEPT !.phase = "returned", !.out = TimerOf(aux.marshalers)]
  /\ UNCHANGED <<loadVars, sessionVars, session0>>

\* lines 288-298
Metric ==
  /\ aux.kind = "lookup"
  /\ aux.phase = "called"
  /\ aux.api = "metric"
  /\ aux' = [aux EXCEPT !.phase = "returned", !.out = MetricOf(aux.marshalers)]
  /\ UNCHANGED <<loadVars, sessionVars, session0>>

\* lines 300-311
Alarm ==
  /\ aux.kind = "lookup"
  /\ aux.phase = "called"
  /\ aux.api = "alarm"
  /\ aux' = [aux EXCEPT !.phase = "returned", !.out = AlarmOf(aux.marshalers)]
  /\ UNCHANGED <<loadVars, sessionVars, session0>>

LookupNext == Data \/ Timer \/ Metric \/ Alarm

SpecLookup == LookupInit /\ [][LookupNext]_vars

\* ------------------------------------------------- preview_data (384-415)
\* importlib.util.find_spec("pandas") / ("pyspark") is not None
Runtimes == [has_pandas : BOOLEAN, has_spark : BOOLEAN]

\* lines 392, 402, 408: the representation asked of load_data
PreviewFormat_SparkFirst(rt) ==
  IF rt.has_spark THEN "SPARK" ELSE IF rt.has_pandas THEN "PANDAS" ELSE "ORIGINAL"

PreviewFormat(rt) ==
  IF rt.has_pandas THEN "PANDAS" ELSE IF rt.has_spark THEN "SPARK" ELSE "ORIGINAL"

\* the (output, limit) preview_data is called with, as load_data will resolve them; the
\* representation and the mode are preview_data's to set
PreviewCalls ==
  {Args(TRUE, l, dec, FALSE, "internal", poll, TRUE, "S3", parts) :
      l \in GoodLimits \cup {LimitInt(0)},
      dec \in {[format |-> "NONE", data_format |-> "csv", data_header_exists |-> TRUE],
               [format |-> "NONE", data_format |-> "csv", data_header_exists |-> FALSE],
               [format |-> "NONE", data_format |-> "parquet", data_header_exists |-> FALSE]},
      poll \in BOOLEAN, parts \in PartitionSeqs}

PreviewInit ==
  /\ args \in PreviewCalls
  /\ LocalsIdle
  /\ SessionIdle
  /\ aux \in {[kind |-> "preview", phase |-> "called", runtimes |-> rt, loads |-> 0,
               data |-> NoneFrame, format |-> "None", error |-> NoError] : rt \in Runtimes}

\* lines 393 / 403 / 409: load_data(output, limit, <format>, iterate=False)
\* is made and next() resumes it
P_Load ==
  /\ aux.kind = "preview"
  /\ aux.phase = "called"
  /\ args' = [args EXCEPT !.format = PreviewFormat(aux.runtimes), !.iterate = FALSE]
  /\ aux' = [aux EXCEPT !.phase = "loading", !.loads = @ + 1]
  /\ ctl' = "load_data"
  /\ pc' = "validate"
  /\ UNCHANGED <<loadLocals, cur, idx, yielded, error, events, transLocals, sessionVars,
                 session0>>

\* next() is back: with the first frame (then it is shown, lines 394-400 / 404-407 /
\* 410-413, and returned with the format, line 415), or with the exception load_data
\* ended with (StopIteration when it ended without a frame); the iterator is dropped
P_Show ==
  /\ aux.kind = "preview"
  /\ aux.phase = "loading"
  /\ ctl = "caller"
  /\ IF pc = "done"
     THEN /\ aux' = [aux EXCEPT !.phase = "raised",
                                !.error = IF error = NoError THEN "StopIteration" ELSE error]
          /\ UNCHANGED pc
     ELSE /\ pc' = "closed"
          /\ CASE args.format = "SPARK" /\ yielded[1] = NoneFrame ->
                    \* data.show() on None
                    aux' = [aux EXCEPT !.phase = "raised", !.error = "AttributeError"]
               [] args.format = "ORIGINAL" /\ yielded[1] = NoneFrame ->
                    \* for line in None
                    aux' = [aux EXCEPT !.phase = "raised", !.error = "TypeError"]
               [] OTHER ->
                    aux' = [aux EXCEPT !.phase = "returned", !.data = yielded[1],
                                       !.format = args.format]
  /\ UNCHANGED <<args, ctl, loadLocals, cur, idx, yielded, error, events, transLocals,
                 sessionVars, session0>>

PreviewNext ==
  \/ P_Load \/ P_Show
  \/ L_Validate \/ L_Dispatch \/ L_LoadInternal \/ L_Select \/ L_SparkLoad
  \/ PullStorage \/ D_SkipEmpty \/ D_Pandas \/ D_Csv \/ D_Spark \/ D_Raw \/ L_End

SpecPreview == PreviewInit /\ [][PreviewNext]_vars

\* ------------------ two transient loads on one session (_load_external_data, 1111-1170)
\* Two generators of _load_external_data made on the same application; their consumer
\* resumes or closes one of them at a time (there is one thread). Each has its own
\* locals; the session and its one slot for the saved development context are shared.
Loads == {1, 2}
Other(i) == 3 - i
Temp(i) == IF i = 1 THEN "temp1" ELSE "temp2"     \* id=str(uuid.uuid1())

NewLoad(n) ==
  [gpc |-> "unstarted", active_state |-> <<>>, left |-> n, pending |-> NoError,
   saved |-> FALSE, snap |-> {}, restored |-> FALSE, popped |-> <<>>]

TwoLoadsInit ==
  /\ LoadIdle
  /\ \E s \in Sessions :
       /\ app_state = s.app_state
       /\ dev_context = s.dev_context
       /\ active_context = s.active_context
       /\ session0 = s
  /\ saved_dev_state = <<>>
  /\ aux \in {[kind |-> "two_loads", running |-> 0, overlapped |-> FALSE,
               gen |-> <<NewLoad(n1), NewLoad(n2)>>] : n1, n2 \in 0..MaxParts}

Gen(i) == aux.gen[i]
Running(i, at) == aux.kind = "two_loads" /\ aux.running = i /\ Gen(i).gpc = at
idleVars == <<loadVars, session0>>

\* next(it): the consumer starts the generator or resumes it after its yield
G_Next(i) ==
  /\ aux.kind = "two_loads" /\ aux.running = 0
  /\ Gen(i).gpc \in {"unstarted", "yielded"}
  /\ aux' = [aux EXCEPT !.running = i,
                        !.gen[i].gpc = IF @ = "unstarted" THEN "check_node" ELSE "read"]
  /\ UNCHANGED <<idleVars, sessionVars>>

\* the consumer drops a suspended generator: GeneratorExit at line 1140
G_Close(i) ==
  /\ aux.kind = "two_loads" /\ aux.running = 0
  /\ Gen(i).gpc = "yielded"
  /\ aux' = [aux EXCEPT !.running = i, !.gen[i].gpc = "cleanup",
                        !.gen[i].pending = "GeneratorExit"]
  /\ UNCHANGED <<idleVars, sessionVars>>

\* lines 1112-1119
G_CheckNode(i) ==
  /\ Running(i, "check_node")
  /\ IF "src" \in dev_context
     THEN aux' = [aux EXCEPT !.gen[i].gpc = "save"]
     ELSE aux' = [aux EXCEPT !.running = 0, !.gen[i].gpc = "done",
                             !.gen[i].pending = "ValueError"]
  /\ UNCHANGED <<idleVars, sessionVars>>

\* a save_dev_state() that leaves the slot as it finds it
G_Save_NoStore(i) ==
  /\ Running(i, "save")
  /\ aux' = [aux EXCEPT !.gen[i].gpc = "create",
                        !.gen[i].active_state = active_context,
                        !.gen[i].saved = TRUE,
                        !.gen[i].snap = dev_context,
                        !.overlapped = @ \/ Gen(Other(i)).gpc \notin {"unstarted", "done"}]
  /\ UNCHANGED <<idleVars, sessionVars>>

\* lines 1121-1125: save_dev_state() writes the one slot whatever it holds, then the
\* active context is copied
G_Save(i) ==
  /\ Running(i, "save")
  /\ saved_dev_state' = <<dev_context>>
  /\ aux' = [aux EXCEPT !.gen[i].gpc = "create",
                        !.gen[i].active_state = active_context,
                        !.gen[i].saved = TRUE,
                        !.gen[i].snap = dev_context,
                        !.overlapped = @ \/ Gen(Other(i)).gpc \notin {"unstarted", "done"}]
  /\ UNCHANGED <<idleVars, app_state, dev_context, active_context>>

\* lines 1126-1130, before the try block
G_Create(i) ==
  /\ Running(i, "create")
  /\ \E ok \in BOOLEAN :
       IF ok
       THEN /\ dev_context' = dev_context \cup {Temp(i)}
            /\ aux' = [aux EXCEPT !.gen[i].gpc = "execute"]
       ELSE /\ aux' = [aux EXCEPT !.running = 0, !.gen[i].gpc = "done",
                                  !.gen[i].pending = "CreateError"]
            /\ UNCHANGED dev_context
  /\ UNCHANGED <<idleVars, app_state, active_context, saved_dev_state>>

\* line 1133
G_Execute(i) ==
  /\ Running(i, "execute")
  /\ \E outcome \in {"ok", "failed", "failed_before_activation"} :
       /\ IF outcome = "failed_before_activation"
          THEN UNCHANGED <<app_state, active_context>>
          ELSE /\ app_state' = Activate(dev_context).app_state
               /\ active_context' = Activate(dev_context).active_context
       /\ IF outcome = "ok"
          THEN aux' = [aux EXCEPT !.gen[i].gpc = "read"]
          ELSE aux' = [aux EXCEPT !.gen[i].gpc = "cleanup",
                                  !.gen[i].pending = "ExecuteError"]
  /\ UNCHANGED <<idleVars, dev_context, saved_dev_state>>

\* lines 1138-1140: the next partition is yielded to the consumer, or the loop ends
G_Read(i) ==
  /\ Running(i, "read")
  /\ IF Gen(i).left > 0
     THEN \E ok \in BOOLEAN :
            IF ok
            THEN aux' = [aux EXCEPT !.running = 0, !.gen[i].gpc = "yielded",
                                    !.gen[i].left = @ - 1]
            ELSE aux' = [aux EXCEPT !.gen[i].gpc = "cleanup", !.gen[i].pending = "IOError"]
     ELSE aux' = [aux EXCEPT !.gen[i].gpc = "cleanup"]
  /\ UNCHANGED <<idleVars, sessionVars>>

\* lines 1145-1167: the deletion (never an error), then activate() with the copied
\* active context or pause()
G_Restore(i) ==
  /\ Running(i, "cleanup")
  /\ IF Gen(i).active_state # <<>>
     THEN /\ dev_context' = Gen(i).active_state[1]
          /\ app_state' = Activate(Gen(i).active_state[1]).app_state
          /\ active_context' = Activate(Gen(i).active_state[1]).active_context
     ELSE /\ app_state' = Pause(app_state)
          /\ UNCHANGED <<dev_context, active_context>>
  /\ aux' = [aux EXCEPT !.gen[i].gpc = "load_dev"]
  /\ UNCHANGED <<idleVars, saved_dev_state>>

\* line 1170: load_dev_state() takes what the slot holds now
G_LoadDevState(i) ==
  /\ Running(i, "load_dev")
  /\ dev_context' = IF saved_dev_state # <<>> THEN saved_dev_state[1] ELSE dev_context
  /\ saved_dev_state' = <<>>
  /\ aux' = [aux EXCEPT !.running = 0, !.gen[i].gpc = "done",
                        !.gen[i].restored = TRUE, !.gen[i].popped = saved_dev_state]
  /\ UNCHANGED <<idleVars, app_state, active_context>>

TwoLoadsNext ==
  \E i \in Loads :
    \/ G_Next(i) \/ G_Close(i) \/ G_CheckNode(i) \/ G_Save(i) \/ G_Create(i)
    \/ G_Execute(i) \/ G_Read(i) \/ G_Restore(i) \/ G_LoadDevState(i)

SpecTwoLoads == TwoLoadsInit /\ [][TwoLoadsNext]_vars

\* ------------- decoding one CSV partition (lines 491-495, 507-515, 648-650)
MaxBytes == 4      \* bytes of one partition's payload

NL == "\n"
\* the bytes of a payload: a letter, the byte 0xE9 (a letter in latin-1, not a valid
\* utf-8 sequence on its own), the two column delimiters tried, the line break
Bytes == {"a", "xE9", ",", ";", NL}
Payloads == UNION {[1..n -> Bytes] : n \in 1..MaxBytes}

\* lines 493-495: data_delimiter, data_encoding, data_header_exists of the access spec
AccessSpecs ==
  [data_delimiter : {",", ";"}, data_encoding : {"utf-8", "latin-1"},
   data_header_exists : BOOLEAN]

NoText == <<"UnicodeDecodeError">>
\* str(data, data_encoding) / data.decode(data_encoding)
Decode(data, encoding) ==
  IF encoding = "utf-8" /\ \E i \in 1..Len(data) : data[i] = "xE9" THEN NoText
  ELSE [i \in 1..Len(data) |-> IF data[i] = "xE9" THEN "e-acute" ELSE data[i]]

\* the pieces of s between the occurrences of d
RECURSIVE SplitAt(_, _)
SplitAt(s, d) ==
  IF \A i \in 1..Len(s) : s[i] # d THEN <<s>>
  ELSE LET i == CHOOSE i \in 1..Len(s) : s[i] = d /\ \A j \in 1..(i - 1) : s[j] # d
       IN <<SubSeq(s, 1, i - 1)>> \o SplitAt(SubSeq(s, i + 1, Len(s)), d)

\* str.splitlines(): no empty last line after a final line break
SplitLines(text) ==
  LET p == SplitAt(text, NL)
  IN IF p[Len(p)] = <<>> THEN SubSeq(p, 1, Len(p) - 1) ELSE p

\* line 650: csv.reader(lines) with no dialect and no delimiter argument: fields are
\* separated by commas, an empty line is an empty row
CsvReader(lines) ==
  [k \in 1..Len(lines) |-> IF lines[k] = <<>> THEN <<>> ELSE SplitAt(lines[k], ",")]

NonBlank(line) == line # <<>>
\* lines 510-515: pd.read_csv(text, nrows=..., sep=data_delimiter, engine=...) with no
\* header argument (header="infer"): blank lines are skipped, the first line left names
\* the columns, at most nrows of the following ones become rows
PdReadCsv(text, nrows, sep) ==
  LET ls == SelectSeq(SplitLines(text), NonBlank)
  IN IF ls = <<>> THEN [error |-> "EmptyDataError", cols |-> <<>>, rows |-> <<>>]
     ELSE [error |-> NoError,
           cols |-> SplitAt(ls[1], sep),
           rows |-> [k \in 1..Min(Len(ls) - 1, nrows) |-> SplitAt(ls[k + 1], sep)]]

DecodeFailed == [error |-> "UnicodeDecodeError", cols |-> <<>>, rows |-> <<>>]

\* a non-empty payload (lines 505 / 648 passed) of a CSV output, its access spec, and
\* the rows still wanted (limit - retrieved_so_far)
ParseInit ==
  /\ LoadIdle
  /\ SessionIdle
  /\ aux \in {[kind |-> "parse", phase |-> "item", data |-> d, spec |-> a, nrows |-> n,
               branch |-> "none", out |-> [error |-> NoError, cols |-> <<>>, rows |-> <<>>]] :
                d \in Payloads, a \in AccessSpecs, n \in 1..MaxLimit}

\* line 650: csv_data = list(csv.reader(data.decode(data_encoding).splitlines()))
ParseNative ==
  /\ aux.kind = "parse"
  /\ aux.phase = "item"
  /\ LET text == Decode(aux.data, aux.spec.data_encoding)
     IN aux' = [aux EXCEPT !.phase = "parsed", !.branch = "csv",
                           !.out = IF text = NoText THEN DecodeFailed
                                   ELSE [error |-> NoError, cols |-> <<>>,
                                         rows |-> CsvReader(SplitLines(text))]]
  /\ UNCHANGED <<loadVars, sessionVars, session0>>

\* lines 510-515: df = pd.read_csv(StringIO(str(data, data_encoding)), ...)
ParsePandas ==
  /\ aux.kind = "parse"
  /\ aux.phase = "item"
  /\ LET text == Decode(aux.data, aux.spec.data_encoding)
     IN aux' = [aux EXCEPT !.phase = "parsed", !.branch = "pandas",
                           !.out = IF text = NoText THEN DecodeFailed
                                   ELSE PdReadCsv(text, aux.nrows, aux.spec.data_delimiter)]
  /\ UNCHANGED <<loadVars, sessionVars, session0>>

ParseNext == ParseNative \/ ParsePandas

SpecParse == ParseInit /\ [][ParseNext]_vars

\* ================================================================ claims
\* what the claims speak about
N == args.limit.val
IsDataRow(l) == l # Header
PartitionRows(p) == SelectSeq(PartitionLines(p), IsDataRow)
RECURSIVE RowsUpTo(_)
RowsUpTo(p) == IF p = 0 THEN <<>> ELSE RowsUpTo(p - 1) \o PartitionRows(p)
AllRows == RowsUpTo(Len(args.partitions))
RECURSIVE NonEmptyUpTo(_)
NonEmptyUpTo(p) ==
  IF p = 0 THEN <<>>
  ELSE IF args.partitions[p] > 0 THEN Append(NonEmptyUpTo(p - 1), p) ELSE NonEmptyUpTo(p - 1)
NonEmptyParts == NonEmptyUpTo(Len(args.partitions))
DataRows(frame) == IF frame.kind = "pandas" THEN frame.lines ELSE SelectSeq(frame.lines, IsDataRow)
RECURSIVE SumDataRows(_)
SumDataRows(fs) == IF fs = <<>> THEN 0 ELSE Len(DataRows(Head(fs))) + SumDataRows(Tail(fs))
Last(s) == s[Len(s)]
IndexOf(ev, e) == CHOOSE i \in 1..Len(ev) : ev[i] = e
NotPositiveInt(l) == l.kind # "none" /\ ~(l.kind = "int" /\ l.val > 0)
Present == args.node_kind = "internal" /\ args.poll_present
TextualDecoded ==
  /\ args.data_format = "csv"
  /\ Branch = "csv" \/ (Branch = "pandas" /\ args.data_header_exists)

\* C1: merged mode, internal output, positive limit N, native CSV (with or without a
\* declared header) or Pandas: the one frame returned holds the first min(N, total)
\* data rows of the non-empty partitions, the partition at the boundary cut at its end
C1_MergedRowsAreLeadingMin ==
  (Present /\ ~args.iterate /\ args.limit.kind = "int" /\ TextualDecoded
     /\ pc = "yield_final")
  => DataRows(Last(yielded)) = SubSeq(AllRows, 1, Min(N, Len(AllRows)))

\* C2: streaming mode with limit N over at least N data rows: once the counter has
\* reached the limit the frames handed
\* out are the full partitions followed by one cut at its end, their data rows sum
\* to N, and load_data is never again at a pull from the partition iterator
C2_StreamingStopsAtLimit ==
  (args.poll_present /\ args.iterate /\ args.limit.kind = "int" /\ TextualDecoded
     /\ Len(AllRows) >= N /\ stop)
  => /\ pc \in {"yield_part", "end", "done", "closed"}
     /\ SumDataRows(yielded) = N
     /\ \A i \in 1..(Len(yielded) - 1) : DataRows(yielded[i]) = PartitionRows(NonEmptyParts[i])

\* C3: a limit that is given and is no positive integer ends load_data with a
\* ValueError before any probe, storage read, partition read or transient-node step
C3_InvalidLimitRejectedFirst ==
  (args.output_ok /\ NotPositiveInt(args.limit))
  => /\ pc \in {"unstarted", "validate", "closed", "done"}
     /\ pc = "done" => error = "ValueError"
     /\ events = <<>> /\ yielded = <<>> /\ idx = 0
     /\ tpc = "unstarted" /\ saved_dev_state = <<>>

C3_Witness ==
  /\ args.limit = LimitInt(0)
  /\ pc = "done" /\ error = "ValueError" /\ events = <<>>

\* C4: merged mode, native CSV with a declared header row, no limit (or one that no
\* partition reaches): the call succeeds and returns the header once, followed by the
\* data rows of all partitions
C4_HeaderOnceThenAllRows ==
  (Present /\ ~args.iterate /\ Branch = "csv" /\ args.data_header_exists
     /\ NonEmptyParts # <<>>
     /\ (args.limit.kind = "none" \/ (args.limit.kind = "int" /\ N >= Len(AllRows)))
     /\ pc \in {"yield_final", "done"})
  => /\ error = NoError
     /\ Len(yielded) = 1
     /\ yielded[1].lines = <<Header>> \o AllRows

\* C5: once a transient load has terminated after its cleanup, the session's activation
\* state is the one found before the call, and a session found active runs its prior
\* active context
C5_ActivationStateAsFound ==
  (tpc = "done" /\ Has(events, "delete_internal") /\ pending \in {NoError, "GeneratorExit"})
  => /\ app_state = session0.app_state
     /\ session0.app_state = "ACTIVE" => active_context = session0.active_context

\* C6: on every exit of a transient load taken after save_dev_state, the snapshot has
\* been restored and its slot emptied, and the transient node is not in the caller's
\* development context
C6_SnapshotRestoredOnEveryExit ==
  (tpc = "done" /\ Has(events, "save_dev_state"))
  => /\ Count(events, "load_dev_state") = Count(events, "save_dev_state")
     /\ saved_dev_state = <<>>
     /\ "temp" \notin dev_context

\* C7: a failed execution of the transient node is the outcome of the call: execute ran
\* once, no partition was read or handed out, and load_data ends with that failure
C7_ExecuteFailurePropagates ==
  pending = "ExecuteError"
  => /\ Count(events, "execute") = 1
     /\ idx = 0 /\ yielded = <<>>
     /\ ~Has(events, "load_internal") /\ ~Has(events, "read")
     /\ tpc = "done" => (pc = "done" /\ error = "ExecuteError")
     /\ pc \in Ended => (pc = "done" /\ error = "ExecuteError")

C7_Witness ==
  /\ pending = "ExecuteError"
  /\ tpc = "done" /\ pc = "done" /\ error = "ExecuteError"

\* C8: a failed deletion of the transient artifacts after a successful execution raises
\* nothing: the diagnostic is emitted, then the session is restored (activate or pause),
\* then the snapshot is discarded, and load_data goes on with what it was handed
C8_DeleteFailureOnlyDiagnosed ==
  (tpc = "done" /\ Has(events, "delete_internal") /\ ~complete_cleanup
     /\ pending # "ExecuteError")
  => /\ Count(events, "cleanup_diag") = 1
     /\ Count(events, "activate") + Count(events, "pause") = 1
     /\ Count(events, "load_dev_state") = 1
     /\ Last(events) = "load_dev_state" \/ ctl # "source"
     /\ IndexOf(events, "delete_internal") < IndexOf(events, "cleanup_diag")
     /\ \A i \in 1..Len(events) :
          events[i] \in {"activate", "pause"}
            => (IndexOf(events, "cleanup_diag") < i /\ i < IndexOf(events, "load_dev_state"))
     /\ saved_dev_state = <<>>
     /\ pending = NoError
          => /\ pc \in {"end", "yield_final", "return", "done", "closed"}
             /\ error \in {NoError, "IndexError"}
     /\ error # "DeleteError"
     /\ idx = Count(events, "read") - (IF pending = "IOError" THEN 1 ELSE 0)

C8_Witness ==
  /\ tpc = "done" /\ ~complete_cleanup /\ pending = NoError
  /\ Has(events, "cleanup_diag")
  /\ pc = "done" /\ error = NoError /\ Len(yielded) >= 1 /\ idx >= 1

C10_PartialExternalRejectedFirst ==
  (args.output_ok /\ ~NotPositiveInt(args.limit) /\ args.format # "BAD"
     /\ args.node_kind = "external" /\ ~args.is_material)
  => /\ pc \in {"unstarted", "validate", "dispatch", "closed", "done"}
     /\ pc = "done" => error = "ValueError"
     /\ events = <<>> /\ yielded = <<>> /\ idx = 0
     /\ tpc = "unstarted" /\ saved_dev_state = <<>> /\ dev_context = session0.dev_context

C10_Witness ==
  /\ args.node_kind = "external" /\ ~args.is_material /\ args.source = "GLUE_TABLE"
  /\ pc = "done" /\ error = "ValueError" /\ events = <<>>

\* ------------------------------------------------ claims about the resolver
\* what the resolver claims speak about
Resolved == aux.kind = "resolver" /\ aux.phase = "returned"
GivenInputs == aux.call.inputs # <<>> /\ Len(aux.call.inputs[1]) >= 1
InputAt(i) == aux.call.inputs[1][i]
NoSpecGiven == aux.call.output_dimension_spec = <<>>
NoLinksGiven == aux.call.output_dim_links \in {<<>>, <<<<>>>>}
HasTargets == aux.call.compute_targets # "none"
Out == aux.out
IndependentExposing(d) ==
  {i \in 1..Len(aux.call.inputs[1]) :
     ~InputAt(i).is_dependent /\ \E k \in 1..Len(InputAt(i).dims) : InputAt(i).dims[k] = d}
LowestOf(S) == CHOOSE i \in S : \A j \in S : i <= j

\* C11: with inputs given, the first of them independent, and neither an explicit output
\* spec nor explicit output links, the node is created with the first input's dimension
\* spec (same names, same order) and with exactly one link per dimension, each of them an
\* identity link (no mapping function) from the same-named dimension of the first input
C11_FirstInputSpecAndIdentityLinks ==
  (Resolved /\ GivenInputs /\ NoSpecGiven /\ NoLinksGiven /\ HasTargets
     /\ ~InputAt(1).is_dependent)
  => /\ Out.error = NoError /\ Out.called # "none"
     /\ Out.output_dimension_spec = InputAt(1).dims
     /\ Len(Out.output_dim_links) = Len(InputAt(1).dims)
     /\ \A k \in 1..Len(InputAt(1).dims) :
          /\ Out.output_dim_links[k].dim = InputAt(1).dims[k]
          /\ Out.output_dim_links[k].func = "None"
          /\ Out.output_dim_links[k].kind = "dimension"
          /\ Out.output_dim_links[k].input = 1

C11_Witness ==
  /\ Resolved /\ GivenInputs /\ NoSpecGiven /\ NoLinksGiven
  /\ Len(aux.call.inputs[1]) = 2
  /\ InputAt(1) = Signal(FALSE, <<"b", "a">>, {})
  /\ InputAt(2) = Signal(FALSE, <<"a", "b">>, {})
  /\ Out.called = "create_data"
  /\ Out.output_dimension_spec = <<"b", "a">>
  /\ Len(Out.output_dim_links) = 2 /\ Out.output_dim_links[1].dim = "b"

\* C12: when the first input is dependent and binds dimension d to a literal value, the
\* inferred link of d is that literal value, never a reference to an input's dimension,
\* whether or not an independent input exposes d
C12_MaterialDimensionLinksToLiteral ==
  (Resolved /\ GivenInputs /\ NoSpecGiven /\ NoLinksGiven /\ InputAt(1).is_dependent
     /\ Out.error = NoError)
  => \A k \in 1..Len(InputAt(1).dims) :
       InputAt(1).dims[k] \in InputAt(1).material
         => /\ Len(Out.output_dim_links) >= k
            /\ Out.output_dim_links[k].dim = InputAt(1).dims[k]
            /\ Out.output_dim_links[k].func = "None"
            /\ Out.output_dim_links[k].kind = "value"
            /\ Out.output_dim_links[k].value = "literal"

C12_Witness ==
  /\ Resolved /\ GivenInputs /\ NoSpecGiven /\ NoLinksGiven
  /\ Len(aux.call.inputs[1]) = 2
  /\ InputAt(1) = Signal(TRUE, <<"a", "b">>, {"a"})
  /\ InputAt(2) = Signal(FALSE, <<"a", "b">>, {})
  /\ Out.called = "create_data"
  /\ Out.output_dim_links[1].kind = "value"
  /\ Out.output_dim_links[2].kind = "dimension" /\ Out.output_dim_links[2].input = 2

\* C13: when the first input is dependent, each dimension it does not bind to a literal
\* is linked to the first input in declaration order that is independent and exposes a
\* dimension of that name (a dependent input is never taken); when some such dimension
\* has no such input the resolver raises and no node is created or updated
C13_FirstIndependentExposingInput ==
  (Resolved /\ GivenInputs /\ NoSpecGiven /\ NoLinksGiven /\ InputAt(1).is_dependent)
  => LET free == {k \in 1..Len(InputAt(1).dims) :
                    InputAt(1).dims[k] \notin InputAt(1).material}
     IN IF \E k \in free : IndependentExposing(InputAt(1).dims[k]) = {}
        THEN /\ Out.error = "ValueError" /\ Out.called = "none"
             /\ dev_context = session0.dev_context
        ELSE HasTargets
               => /\ Out.error = NoError
                  /\ Len(Out.output_dim_links) = Len(InputAt(1).dims)
                  /\ \A k \in free :
                       /\ Out.output_dim_links[k].dim = InputAt(1).dims[k]
                       /\ Out.output_dim_links[k].func = "None"
                       /\ Out.output_dim_links[k].kind = "dimension"
                       /\ Out.output_dim_links[k].input
                            = LowestOf(IndependentExposing(InputAt(1).dims[k]))

C13_Witness ==
  /\ Resolved /\ GivenInputs /\ NoSpecGiven /\ NoLinksGiven
  /\ Len(aux.call.inputs[1]) = 3
  /\ InputAt(1) = Signal(TRUE, <<"a", "b">>, {})
  /\ InputAt(2) = Signal(TRUE, <<"a", "b">>, {})
  /\ InputAt(3) = Signal(FALSE, <<"a", "b">>, {})
  /\ Out.called = "create_data"
  /\ Out.output_dim_links[1].input = 3 /\ Out.output_dim_links[2].input = 3

\* C14 as stated: an explicit output spec is passed on unchanged, and with it the output
\* links are still inferred from the first input when none are given
C14_ExplicitSpecStillInfersLinks ==
  (Resolved /\ ~NoSpecGiven /\ HasTargets)
  => /\ Out.output_dimension_spec = aux.call.output_dimension_spec[1]
     /\ (NoLinksGiven /\ GivenInputs /\ ~InputAt(1).is_dependent)
          => /\ Len(Out.output_dim_links) = Len(InputAt(1).dims)
             /\ \A k \in 1..Len(InputAt(1).dims) :
                  /\ Out.output_dim_links[k].dim = InputAt(1).dims[k]
                  /\ Out.output_dim_links[k].kind = "dimension"
                  /\ Out.output_dim_links[k].input = 1

\* C14 amended: an explicit output spec is passed on unchanged, and so are the output
\* links: the explicit links when some are given, the empty list otherwise (the resolver
\* infers links only when it also defaults the spec)
C14_ExplicitSpecKeepsLinksAsGiven ==
  (Resolved /\ ~NoSpecGiven /\ HasTargets)
  => /\ Out.error = NoError /\ Out.called # "none"
     /\ Out.output_dimension_spec = aux.call.output_dimension_spec[1]
     /\ Out.output_dim_links
          = IF NoLinksGiven THEN <<>> ELSE aux.call.output_dim_links[1]

C14_Witness ==
  /\ Resolved /\ ~NoSpecGiven /\ NoLinksGiven /\ GivenInputs
  /\ InputAt(1) = Signal(FALSE, <<"a", "b">>, {})
  /\ Out.called = "create_data"
  /\ Out.output_dimension_spec = <<"x", "a">>
  /\ Out.output_dim_links = <<>>

\* C15: without inputs (None or the empty list) and without an explicit output spec the
\* node gets the empty output spec and the empty list of output links
C15_NoInputsEmptySpecAndLinks ==
  (Resolved /\ ~GivenInputs /\ NoSpecGiven /\ HasTargets)
  => /\ Out.error = NoError /\ Out.called # "none"
     /\ Out.output_dimension_spec = <<>>
     /\ Out.output_dim_links = <<>>

C15_Witness ==
  /\ Resolved /\ aux.call.inputs = <<<<>>>> /\ NoSpecGiven /\ NoLinksGiven
  /\ Out.called = "update_data"
  /\ Out.output_dimension_spec = <<>> /\ Out.output_dim_links = <<>>
  /\ "node" \in dev_context

\* ------------------------------------------------ claims about the node lookup
MappedCount == IF aux.marshalers = <<>> THEN 0 ELSE Len(aux.marshalers[1])

\* C16: data(), timer(), metric() and alarm() return a node only when the id maps to
\* exactly one node of the kind (and then that node); an id that maps to more than one
\* raises an error and returns nothing; an id that maps to none returns no node
C16_SingleNodeOrErrorOrNone ==
  (aux.kind = "lookup" /\ aux.phase = "returned")
  => /\ MappedCount = 1
          => /\ aux.out.error = NoError
             /\ aux.out.node = <<aux.marshalers[1][1]>>
     /\ MappedCount > 1 => (aux.out.error = "ValueError" /\ aux.out.node = <<>>)
     /\ MappedCount = 0 => (aux.out.error = NoError /\ aux.out.node = <<>>)

C16_Witness ==
  /\ aux.kind = "lookup" /\ aux.phase = "returned" /\ aux.api = "data"
  /\ aux.marshalers = <<<<"own", "upstream">>>>
  /\ aux.out.error = "ValueError" /\ aux.out.node = <<>>

\* ------------------------------------------------ claims about the two output modes
IsFrame(f) == f # NoneFrame
Frames == SelectSeq(yielded, IsFrame)
IsPrefix(a, b) == Len(a) <= Len(b) /\ a = SubSeq(b, 1, Len(a))
\* the errors by which a partition sequence is turned down: a failed read, a format the
\* branch does not decode, a limit the decoding cannot compute with
Rejections == {"ValueError", "TypeError", "NotImplementedError", "IOError", "AttributeError"}
Merging == ~args.iterate /\ Present /\ Branch \in {"pandas", "csv"}

\* C17: in merged mode (present internal output, Pandas or native CSV decoding)
\* load_data hands out no frame before every partition that contributes to it has been
\* consumed, never more than one frame, and, whatever the partitions hold (also when
\* none of them has a payload), a load that was not turned down ends having handed out
\* exactly one frame and no error
C17_MergedYieldsOneFrameAtEnd ==
  Merging
  => /\ Len(yielded) <= 1
     /\ yielded # <<>> => (stop \/ idx = Len(args.partitions))
     /\ (pc = "done" /\ error \notin Rejections) => (Len(yielded) = 1 /\ error = NoError)

Previewing == aux.kind = "preview"
PandasThere == aux.runtimes.has_pandas
SparkThere == aux.runtimes.has_spark

\* C19: preview_data takes Pandas when its runtime is there, Spark only when Pandas is
\* not there and Spark is, the original representation only when neither is there; it
\* starts exactly one load, in merged mode and with the representation taken; and what
\* it returns is the first frame of that load together with that representation
C19_PreviewPrefersPandasThenSpark ==
  Previewing
  => /\ aux.loads = IF aux.phase = "called" THEN 0 ELSE 1
     /\ aux.phase # "called"
          => /\ ~args.iterate
             /\ args.format = "PANDAS" <=> PandasThere
             /\ args.format = "SPARK" <=> (~PandasThere /\ SparkThere)
             /\ args.format = "ORIGINAL" <=> (~PandasThere /\ ~SparkThere)
     /\ aux.phase = "returned"
          => /\ Len(yielded) >= 1 /\ aux.data = yielded[1]
             /\ aux.format = args.format
             /\ aux.format = "PANDAS" => aux.data.kind \in {"pandas", "none"}
             /\ aux.format = "SPARK" => aux.data.kind = "spark"
             /\ aux.format = "ORIGINAL" => aux.data.kind \in {"csv", "raw"}

C19_Witness ==
  /\ Previewing /\ aux.phase = "returned"
  /\ ~PandasThere /\ SparkThere
  /\ aux.format = "SPARK" /\ aux.data = SparkFrame /\ aux.loads = 1
  /\ args.partitions = <<2, 1>>

\* ------------------------------------------------ claims about overlapping loads
TwoLoads == aux.kind = "two_loads"
\* the loads that have saved the development context and not yet reached their
\* load_dev_state nor ended
Outstanding == {i \in Loads : Gen(i).saved /\ ~Gen(i).restored /\ Gen(i).gpc # "done"}
RestoresOwnSnapshot == \A i \in Loads : Gen(i).restored => Gen(i).popped = <<Gen(i).snap>>

\* C20 as stated: in every reachable state, two transient loads in progress at once on
\* the same session included, at most one snapshot is outstanding (no save_dev_state
\* between the save_dev_state and the load_dev_state of another load) and each
\* load_dev_state restores the snapshot that the same load captured
C20_OneSnapshotOutstanding ==
  TwoLoads => (Cardinality(Outstanding) <= 1 /\ RestoresOwnSnapshot)

\* C20 amended: as long as no load has saved the development context while another
\* load was in progress, each load_dev_state restores the snapshot that the same load
\* captured, and the slot is filled only while some load has saved and not yet restored
C20_OwnSnapshotWhenNotOverlapping ==
  (TwoLoads /\ ~aux.overlapped)
  => /\ RestoresOwnSnapshot
     /\ saved_dev_state # <<>> => \E i \in Loads : Gen(i).saved /\ ~Gen(i).restored

C20_Witness ==
  /\ TwoLoads /\ ~aux.overlapped
  /\ \A i \in Loads :
       /\ Gen(i).gpc = "done" /\ Gen(i).restored /\ Gen(i).pending = NoError
       /\ Gen(i).popped = <<{"src"}>>
  /\ dev_context = {"src"} /\ saved_dev_state = <<>>

\* ------------------------------------------------ claims about the transient load
Transient == IsTransient(args)
SessionNow ==
  [app_state |-> app_state, active_context |-> active_context, dev_context |-> dev_context]
TransientNodeVisible ==
  \/ "temp" \in dev_context
  \/ active_context # <<>> /\ "temp" \in active_context[1]

\* C21: when load_data hands its one merged frame to the caller for a Glue-table source
\* (Pandas or native CSV decoding), the transient node has been executed, its artifacts
\* deleted (or the deletion tried), the session restored by activate or pause and the
\* saved development context taken back; also when the record limit ended the reading
\* before the partitions were exhausted
C21_MergedResultAfterSideEffects ==
  (Transient /\ ~args.iterate /\ Branch \in {"pandas", "csv"}
     /\ ctl = "caller" /\ pc = "yield_final")
  => /\ Has(events, "execute")
     /\ Has(events, "delete_internal")
     /\ Has(events, "activate") \/ Has(events, "pause")
     /\ Has(events, "load_dev_state")
     /\ saved_dev_state = <<>>
     /\ tpc = "done"

\* C22: whenever control is with the caller of load_data (before the first pull, between
\* two frames, after the last one), the session holds no transient node, neither in the
\* development context nor in the active context, and both are as they were before the
\* call
C22_SessionUntouchedAtCaller ==
  ctl = "caller"
  => /\ ~TransientNodeVisible
     /\ dev_context = session0.dev_context
     /\ active_context = session0.active_context

\* the steps of the transient protocol: ten times the number the protocol gives the
\* step, plus the place of the call within the step (0: a call that is no step of it)
StepRank(e) ==
  CASE e = "get_data" -> 10
    [] e = "save_dev_state" -> 20
    [] e = "create_data" -> 30
    [] e = "execute" -> 40
    [] e = "load_internal" -> 50
    [] e = "read" -> 51
    [] e = "delete_internal" -> 60
    [] e = "cleanup_diag" -> 61
    [] e \in {"activate", "pause"} -> 70
    [] e = "load_dev_state" -> 80
    [] OTHER -> 0
\* load_data's own call before the transient load is "materialize" (line 483)
Steps == IF events = <<>> THEN <<>> ELSE Tail(events)
OnceSteps == {"get_data", "save_dev_state", "create_data", "execute", "delete_internal",
              "load_dev_state"}

\* C23: in a transient load the steps are taken in the order check of the source node,
\* save of the development context, creation of the transient node, its execution, the
\* reads, the deletion, activate or pause, load of the saved context; no step is taken
\* twice except the reads; a load that runs to its end without an error has taken each
\* of them; and when the source node is not in the development context nothing follows
\* the check
C23_ProtocolOrder ==
  Transient
  => /\ \A k \in 2..(Len(events) - 1) :
          /\ StepRank(events[k]) >= 10
          /\ \/ StepRank(events[k]) < StepRank(events[k + 1])
             \/ events[k] = "read" /\ events[k + 1] = "read"
     /\ Len(events) >= 2 => StepRank(events[Len(events)]) >= 10
     /\ (tpc = "done" /\ pending = NoError /\ Has(events, "load_dev_state"))
          => /\ \A e \in OnceSteps : Has(events, e)
             /\ Has(events, "activate") \/ Has(events, "pause")
             /\ Has(events, "load_internal")
             /\ Count(events, "read") >= Len(args.partitions)
     /\ "src" \notin session0.dev_context
          => /\ \A k \in 2..Len(events) : StepRank(events[k]) = 10
             /\ tpc = "done" => (pc = "done" /\ error = "ValueError")

C23_Witness ==
  /\ Transient /\ Branch = "raw" /\ args.partitions = <<1, 2>>
  /\ tpc = "done" /\ pending = NoError /\ complete_cleanup
  /\ session0.app_state = "ACTIVE"
  /\ Steps = <<"get_data", "save_dev_state", "create_data", "execute", "load_internal",
               "read", "read", "delete_internal", "activate", "load_dev_state">>

\* C24: the deletion of the transient node's artifacts is made whenever the execution
\* succeeded, whatever happens to the reads and to what follows them, and it is not made
\* when the execution itself raised
C24_CleanupOnlyAfterSuccessfulExecute ==
  Transient
  => /\ (tpc = "done" /\ Has(events, "load_internal")) => Has(events, "delete_internal")
     /\ pending = "ExecuteError" => ~Has(events, "delete_internal")

\* C25: whatever the representation and the data format (the raw fallback included), a
\* partition with an empty payload is skipped before it is decoded: the step that
\* takes it up hands nothing to the caller, adds no rows to the merged result and leaves
\* the record counter as it was
C25_EmptyPartitionsSkipped ==
  [][(ctl = "load_data" /\ pc = "item" /\ cur.lines = <<>>)
     => /\ yielded' = yielded
        /\ retrieved_so_far' = retrieved_so_far
        /\ pandas_df_list' = pandas_df_list
        /\ all_data' = all_data]_vars

\* C26: with the native representation of an output whose data format is not CSV,
\* load_data raises an unsupported-operation error exactly when merged mode is asked
\* for (no partition is handed out and the load does not end well), and in streaming
\* mode it hands out the partitions as they are, in order, without that error
C26_RawMergedIsUnsupported ==
  Branch = "raw"
  => /\ ~args.iterate => /\ Frames = <<>>
                         /\ pc = "done" => error # NoError
     /\ args.iterate => /\ error # "NotImplementedError"
                        /\ \A k \in 1..Len(Frames) :
                             Frames[k] = [kind |-> "raw", cols |-> <<>>,
                                          lines |-> PartitionLines(k)]

\* what a CSV payload holds when it is read as its access specification declares it:
\* decoded with data_encoding, fields separated by data_delimiter, and (Pandas) the
\* first line naming the columns only when data_header_exists
Parsing == aux.kind = "parse" /\ aux.phase = "parsed"
FieldsOf(lines, d) ==
  [k \in 1..Len(lines) |-> IF lines[k] = <<>> THEN <<>> ELSE SplitAt(lines[k], d)]
AsDeclared ==
  LET text == Decode(aux.data, aux.spec.data_encoding)
      d == aux.spec.data_delimiter
      ls == SplitLines(text)
      nb == SelectSeq(ls, NonBlank)
  IN IF text = NoText THEN DecodeFailed
     ELSE IF aux.branch = "csv" THEN [error |-> NoError, cols |-> <<>>, rows |-> FieldsOf(ls, d)]
     ELSE IF nb = <<>> THEN [error |-> "EmptyDataError", cols |-> <<>>, rows |-> <<>>]
     ELSE IF aux.spec.data_header_exists
          THEN [error |-> NoError, cols |-> SplitAt(nb[1], d),
                rows |-> FieldsOf(SubSeq(nb, 2, Min(Len(nb), 1 + aux.nrows)), d)]
          ELSE [error |-> NoError, cols |-> <<>>,
                rows |-> FieldsOf(SubSeq(nb, 1, Min(Len(nb), aux.nrows)), d)]

\* C27: whatever the representation (native rows, Pandas), a CSV partition is parsed
\* with the column delimiter, the encoding and the header flag of the output's access
\* specification: what the parse returns is the payload read as declared
C27_ParsedAsAccessSpecDeclares ==
  Parsing => aux.out = AsDeclared

\* C28: an external output stored in S3 is served by listing and reading its objects
\* directly, one read per partition pulled, and the session is left as it was: no
\* snapshot is taken, no transient node is created or executed, nothing is deleted and
\* the application is neither activated nor paused
ExternalS3 == args.node_kind = "external" /\ args.source = "S3"
SessionCalls ==
  {"get_data", "save_dev_state", "create_data", "execute", "load_internal",
   "delete_internal", "cleanup_diag", "activate", "pause", "load_dev_state"}
C28_S3ReadsLeaveSessionAlone ==
  ExternalS3
  => /\ SessionNow = session0
     /\ saved_dev_state = <<>>
     /\ tpc = "unstarted"
     /\ \A k \in 1..Len(events) : events[k] \notin SessionCalls
     /\ \A k \in 2..Len(events) : events[k] = "read"
     /\ idx >= 1 => idx < Len(events)
     /\ idx >= 1 => cur = Item(idx)

C28_Witness ==
  /\ ExternalS3
  /\ args.iterate
  /\ Branch = "csv"
  /\ args.partitions = <<1, 2>>
  /\ pc = "done"
  /\ error = NoError
  /\ Len(Frames) = 2
  /\ events = <<"materialize", "read", "read">>

\* C29 as stated: explicit output links that are not empty are passed on unchanged,
\* whatever the inputs (none, an independent first input, a dependent first input) and
\* whether or not an explicit output spec is given
C29_ExplicitLinksAlwaysForwarded ==
  (Resolved /\ ~NoLinksGiven /\ HasTargets)
  => /\ Out.error = NoError /\ Out.called # "none"
     /\ Out.output_dim_links = aux.call.output_dim_links[1]

\* C29 amended: explicit output links that are not empty are passed on unchanged, except
\* when there are neither inputs nor an explicit output spec: then the node is given the
\* empty list of links
C29_ExplicitLinksForwardedUnlessBare ==
  (Resolved /\ ~NoLinksGiven /\ HasTargets)
  => /\ Out.error = NoError /\ Out.called # "none"
     /\ Out.output_dim_links
          = IF ~GivenInputs /\ NoSpecGiven THEN <<>> ELSE aux.call.output_dim_links[1]

C29_Witness ==
  /\ Resolved /\ ~NoLinksGiven /\ NoSpecGiven /\ GivenInputs
  /\ InputAt(1).is_dependent
  /\ Out.called = "create_data"
  /\ Out.output_dimension_spec = InputAt(1).dims
  /\ Out.output_dim_links = ExplicitLinks

\* C30: once load_data has handed out the none result for an absent internal output
\* the sequence is over: a caller that keeps consuming causes no load_internal, no
\* decoding, no further element and no error
AbsentReported ==
  args.node_kind = "internal" /\ ~args.poll_present /\ Has(events, "absent_diag")
C30_NothingAfterAbsentResult ==
  AbsentReported
  => /\ yielded = <<NoneFrame>>
     /\ ~Has(events, "load_internal")
     /\ ~Has(events, "read")
     /\ error = NoError

====
